---- MODULE Spec2Model ----
(***************************************************************************)
(* Watch-party synchronisation server (src/scripts/watch_party.py, and the *)
(* annotated copy src/watch_party.py): the room registry, the per-room     *)
(* playback state, the broadcaster and the per-connection session handler. *)
(*                                                                         *)
(* The server runs on one cooperative event loop.  A handler only yields   *)
(* at an await; every action below is one resumption of one handler: the   *)
(* effect of the awaited I/O operation followed by the code that runs up   *)
(* to the next await.                                                      *)
(*                                                                         *)
(* Strings are sequences of one-character strings, so that strip() and     *)
(* slicing are computed.  Seconds are integers.                            *)
(***************************************************************************)
EXTENDS Integers, Sequences, FiniteSets, TLC

\* ------------------------------------------------------------------ bounds
NumConns == 2       \* connections (WebSocket objects) of Spec
FanoutConns == 3    \* connections of SpecFanout
MaxRooms == 2       \* RoomState objects ever allocated
MaxClock == 1       \* time.time() ranges over 0..MaxClock
MaxGone  == 1       \* peers that go away without being closed by the server
MaxCmds  == 1       \* messages the main loops handle in all
MaxPos   == 2       \* committed positions drawn for effective_position
MaxClockEP == 3     \* time.time() ranges over 0..MaxClockEP in SpecEP
MaxReads == 2       \* reads of effective_position recorded

\* str(...)[:40] at the join's name
NameLimit == 40

Conns == 1..(IF NumConns < FanoutConns THEN FanoutConns ELSE NumConns)

\* ----------------------------------------------------------------- values
None    == <<>>                    \* Python None (host_id, room, room_id)
Missing == <<"<missing>">>         \* a key the JSON object does not hold
JTrue   == <<"true">>
JFalse  == <<"false">>
SP      == " "
NoType  == "<none>"                \* m.get("type") of an object without it

RECURSIVE LStrip(_)
LStrip(s) == IF s # <<>> /\ Head(s) = SP THEN LStrip(Tail(s)) ELSE s

RECURSIVE RStrip(_)
RStrip(s) ==
    IF s # <<>> /\ s[Len(s)] = SP THEN RStrip(SubSeq(s, 1, Len(s) - 1)) ELSE s

\* mutant: the field is taken as it is
StripNothing(s) == s

\* str.strip()
Strip(s) == RStrip(LStrip(s))

\* dict.get(key, default)
Get(v, default) == IF v = Missing THEN default ELSE v

\* s[:n]
Prefix(s, n) == SubSeq(s, 1, IF Len(s) < n THEN Len(s) ELSE n)

\* bool(...) of a JSON true/false
ToBool(v) == v = JTrue

\* uuid.uuid4().hex[:10]: one fresh identifier per connection
ClientIdOf(w) == <<w>>

\* ----------------------------------------------------------------- inputs
RoomInputs  ==
    {Missing, <<>>, <<SP>>, <<SP, SP>>, <<"a">>, <<SP, "a", SP>>, <<"b">>}
MediaInputs == {Missing, <<"m">>, <<"n", SP>>}
RoomIdSeq   == << <<"a">>, <<"b">> >>
RoomIds     == {RoomIdSeq[i] : i \in DOMAIN RoomIdSeq}
Tokens      == {<<"1">>, <<"2">>}
LongName    == [i \in 1..(NameLimit + 1) |-> "x"]

JoinName(w) ==
    CASE w = 1 -> Missing
      [] w = 2 -> <<"b", "o", "b">>
      [] OTHER -> LongName

JoinMsgs(w) ==
    [type : {"join"}, room : RoomInputs, name : {JoinName(w)},
     want_host : {Missing, JTrue, JFalse}, media_id : MediaInputs]

SetMediaMsgs == [type : {"set_media"}, media_id : MediaInputs]
PingMsgs     == [type : {"ping"}, t : Tokens]
OtherMsgs    ==
    [type : {"play", "pause"}, at : {1}] \cup
    [type : {"seek"}, to : {1}, playing : {TRUE}]

\* msg before the main loop's first receive
NoMsg == [type |-> NoType]

VARIABLES
    now,          \* time.time()
    rooms,        \* the registry: room id -> index of a RoomState in heap
    heap,         \* the RoomState objects allocated so far
    pc,           \* each handler's position
    room,         \* handler local: index of its RoomState, 0 for None
    room_id,      \* handler local
    client_name,  \* handler local
    out,          \* the message of the send the handler is awaiting
    pending,      \* broadcast: connections of the snapshot not yet tried
    dead,         \* broadcast: connections whose send failed
    delivered,    \* history: connections the running broadcast has reached
    msg,          \* handler local: the main loop's last message
    alive,        \* the peer is still connected
    close_code,   \* the code the server closed the connection with, 0: not closed
    outbox,       \* the messages delivered to each connection, in order
    cmds,         \* messages handled by the main loops so far
    reads         \* effective_position reads: <<time, value>>

vars == <<now, rooms, heap, pc, room, room_id, client_name, out, pending, dead,
          delivered, msg, alive, close_code, outbox, cmds, reads>>

EmptyDict == <<>>

\* a dict with key k set to v
DictSet(d, k, v) == [x \in DOMAIN d \cup {k} |-> IF x = k THEN v ELSE d[x]]

\* --------------------------------------------------------------- RoomState
NewRoomState(t) ==
    [is_playing |-> FALSE, position |-> 0, updated_at |-> t, media_id |-> <<>>,
     host_id |-> None, clients |-> {}, client_ids |-> EmptyDict]

\* mutant: the committed position, whether playing or not
effective_position_committed(r, t) == r.position

effective_position(r, t) ==
    IF ~r.is_playing THEN r.position ELSE r.position + (t - r.updated_at)

\* ---------------------------------------------------------------- messages
WelcomeMsg(cid, rid, hid) ==
    [type |-> "welcome", client_id |-> cid, room |-> rid, host_id |-> hid]

StateMsg(r, t) ==
    [type |-> "state", is_playing |-> r.is_playing,
     position |-> effective_position(r, t),
     media_id |-> r.media_id, host_id |-> r.host_id]

JoinEvent(cid, name, t, hid) ==
    [type |-> "event", kind |-> "join",
     payload |-> [client_id |-> cid, name |-> name], host_id |-> hid]

\* mutant: the pong carries no token
PongWithoutToken(tok, t) == [type |-> "pong", t |-> None]

PongMsg(tok, t) == [type |-> "pong", t |-> tok]

\* ----------------------------------------------------------------- registry
\* Room ids are opaque to the code: they are named in the order in which the
\* registry first holds them.
NamedInOrder(rid) ==
    \/ rid \in DOMAIN rooms
    \/ rid \notin RoomIds
    \/ \E i \in DOMAIN RoomIdSeq :
          /\ rid = RoomIdSeq[i]
          /\ \A j \in 1..(i - 1) : RoomIdSeq[j] \in DOMAIN rooms

\* Connections are numbered in the order in which their first receive returns.
InOrder(w) == \A v \in Conns : v < w => pc[v] \notin {"connecting", "awaiting_join"}

\* mutant: a RoomState is created and stored whether the id is known or not
require_room_fresh(rid) ==
    [rooms |-> DictSet(rooms, rid, Len(heap) + 1),
     heap  |-> Append(heap, NewRoomState(now)),
     idx   |-> Len(heap) + 1]

\* require_room: the registry and heap after the call, and the room's index
require_room(rid) ==
    IF rid \notin DOMAIN rooms
    THEN [rooms |-> DictSet(rooms, rid, Len(heap) + 1),
          heap  |-> Append(heap, NewRoomState(now)),
          idx   |-> Len(heap) + 1]
    ELSE [rooms |-> rooms, heap |-> heap, idx |-> rooms[rid]]

\* POST /create-room: uuid4().hex[:8] is a fresh identifier, as uuid4 is for
\* the client ids
create_room(rid) ==
    /\ Len(heap) < MaxRooms
    /\ rid \notin DOMAIN rooms
    /\ NamedInOrder(rid)
    /\ heap' = Append(heap, NewRoomState(now))
    /\ rooms' = DictSet(rooms, rid, Len(heap) + 1)
    /\ UNCHANGED <<now, pc, room, room_id, client_name, out, pending, dead,
                   alive, close_code, outbox, cmds, reads, delivered, msg>>

\* -------------------------------------------------------------- connections
\* ws.send_json succeeds on a connection that neither side has closed
Deliverable(w) == alive[w] /\ close_code[w] = 0

\* mutant: every open connection is closed with the handler's own
ClosedEveryone(w, code) ==
    [v \in Conns |-> IF Deliverable(v) THEN code ELSE close_code[v]]

\* await ws.close(code): raises, and is swallowed, when the peer is gone
Closed(w, code) ==
    [close_code EXCEPT ![w] = IF Deliverable(w) THEN code ELSE @]

\* the except branch of ws_endpoint: close, swallow, return
HandlerFails(w) ==
    /\ pc' = [pc EXCEPT ![w] = "closed"]
    /\ close_code' = Closed(w, 1000)
    /\ out' = [out EXCEPT ![w] = None]
    /\ pending' = [pending EXCEPT ![w] = {}]
    /\ dead' = [dead EXCEPT ![w] = {}]
    /\ delivered' = [delivered EXCEPT ![w] = {}]
    /\ UNCHANGED <<now, rooms, heap, room, room_id, client_name, alive,
                   outbox, cmds, reads, msg>>

\* the peer goes away
Disconnect(w) ==
    /\ pc[w] # "connecting"
    /\ alive[w]
    /\ close_code[w] = 0
    /\ Cardinality({v \in Conns : ~alive[v]}) < MaxGone
    /\ alive' = [alive EXCEPT ![w] = FALSE]
    /\ UNCHANGED <<now, rooms, heap, pc, room, room_id, client_name, out,
                   pending, dead, close_code, outbox, cmds, reads, delivered,
                   msg>>

\* time.time() advances
Advance(limit) ==
    /\ now < limit
    /\ now' = now + 1
    /\ UNCHANGED <<rooms, heap, pc, room, room_id, client_name, out, pending,
                   dead, alive, close_code, outbox, cmds, reads, delivered,
                   msg>>

Tick == Advance(MaxClock)

\* a caller reads room.effective_position() of the i-th RoomState
ReadPosition(i) ==
    /\ Len(reads) < MaxReads
    /\ reads' = Append(reads, [at |-> now, value |-> effective_position(heap[i], now)])
    /\ UNCHANGED <<now, rooms, heap, pc, room, room_id, client_name, out,
                   pending, dead, delivered, msg, alive, close_code, outbox,
                   cmds>>

\* ------------------------------------------------------------- ws_endpoint
\* await ws.accept()
Accept(w) ==
    /\ pc[w] = "connecting"
    /\ pc' = [pc EXCEPT ![w] = "awaiting_join"]
    /\ UNCHANGED <<now, rooms, heap, room, room_id, client_name, out, pending,
                   dead, alive, close_code, outbox, cmds, reads, delivered,
                   msg>>

\* mutant: the policy-violation code of the empty room is used
RecvNotJoinAsNoRoom(w, m) ==
    /\ pc[w] = "awaiting_join"
    /\ InOrder(w)
    /\ alive[w]
    /\ m.type # "join"
    /\ pc' = [pc EXCEPT ![w] = "closed"]
    /\ close_code' = Closed(w, 1008)
    /\ UNCHANGED <<now, rooms, heap, room, room_id, client_name, out, pending,
                   dead, alive, outbox, cmds, reads, delivered, msg>>

\* first message, type is not join: close(code=1002), return
RecvNotJoin(w, m) ==
    /\ pc[w] = "awaiting_join"
    /\ InOrder(w)
    /\ alive[w]
    /\ m.type # "join"
    /\ pc' = [pc EXCEPT ![w] = "closed"]
    /\ close_code' = Closed(w, 1002)
    /\ UNCHANGED <<now, rooms, heap, room, room_id, client_name, out, pending,
                   dead, alive, outbox, cmds, reads, delivered, msg>>

\* join whose room is empty after str().strip(): close(code=1008), return
RecvJoinNoRoom(w, m) ==
    /\ pc[w] = "awaiting_join"
    /\ InOrder(w)
    /\ alive[w]
    /\ m.type = "join"
    /\ Strip(Get(m.room, <<>>)) = <<>>
    /\ pc' = [pc EXCEPT ![w] = "closed"]
    /\ close_code' = Closed(w, 1008)
    /\ UNCHANGED <<now, rooms, heap, room, room_id, client_name, out, pending,
                   dead, alive, outbox, cmds, reads, delivered, msg>>

\* mutant: a joiner that asks for it takes the host role over
AssignHostOnRequest(r, cid, want_host) ==
    IF r.host_id = None \/ want_host THEN [r EXCEPT !.host_id = cid] ELSE r

\* if room.host_id is None: room.host_id = client_id
AssignHost(r, cid, want_host) ==
    IF r.host_id = None THEN [r EXCEPT !.host_id = cid] ELSE r

\* mutant: any joiner's media is adopted while the room has none
AdoptMediaOfAnyone(r, initial_media_id, cid) ==
    IF r.media_id = <<>> /\ initial_media_id # <<>>
    THEN [r EXCEPT !.media_id = initial_media_id]
    ELSE r

\* if not room.media_id and initial_media_id and client_id == room.host_id
AdoptMedia(r, initial_media_id, cid) ==
    IF r.media_id = <<>> /\ initial_media_id # <<>> /\ cid = r.host_id
    THEN [r EXCEPT !.media_id = initial_media_id]
    ELSE r

\* mutant: the connection is added to clients and not to client_ids
RegisterClientsOnly(r, w, cid) == [r EXCEPT !.clients = @ \cup {w}]

\* room.clients.add(ws); room.client_ids[ws] = client_id
Register(r, w, cid) ==
    [r EXCEPT !.clients = @ \cup {w}, !.client_ids = DictSet(@, w, cid)]

\* a valid join, up to the await of the welcome's send
RecvJoin(w, m) ==
    /\ pc[w] = "awaiting_join"
    /\ InOrder(w)
    /\ alive[w]
    /\ m.type = "join"
    /\ LET rid  == Strip(Get(m.room, <<>>))
           name == Prefix(Get(m.name, <<"g", "u", "e", "s", "t">>), NameLimit)
           want == ToBool(Get(m.want_host, JFalse))
           mid  == Strip(Get(m.media_id, <<>>))
           reg  == require_room(rid)
           cid  == ClientIdOf(w)
           r    == AdoptMedia(AssignHost(Register(reg.heap[reg.idx], w, cid),
                                         cid, want), mid, cid)
       IN  /\ rid # <<>>
           /\ NamedInOrder(rid)
           /\ Len(reg.heap) <= MaxRooms
           /\ rooms' = reg.rooms
           /\ heap' = [reg.heap EXCEPT ![reg.idx] = r]
           /\ room' = [room EXCEPT ![w] = reg.idx]
           /\ room_id' = [room_id EXCEPT ![w] = rid]
           /\ client_name' = [client_name EXCEPT ![w] = name]
           /\ out' = [out EXCEPT ![w] = WelcomeMsg(cid, rid, r.host_id)]
           /\ pc' = [pc EXCEPT ![w] = "send_welcome"]
    /\ UNCHANGED <<now, pending, dead, alive, close_code, outbox, cmds, reads,
                   delivered, msg>>

\* the handler's first message, whatever it is
RecvFirst(w, m) == RecvNotJoin(w, m) \/ RecvJoinNoRoom(w, m) \/ RecvJoin(w, m)

\* receive_json raises (the peer is gone, or the text is not a JSON object)
RecvFails(w) ==
    /\ \/ pc[w] = "active"
       \/ pc[w] = "awaiting_join" /\ InOrder(w)
    /\ HandlerFails(w)

\* send_json raises in the handler's own send
SendFails(w) ==
    /\ pc[w] \in {"send_welcome", "send_state", "send_pong"}
    /\ ~Deliverable(w)
    /\ HandlerFails(w)

\* the welcome is sent; the state snapshot is built
SendWelcome(w) ==
    /\ pc[w] = "send_welcome"
    /\ Deliverable(w)
    /\ outbox' = [outbox EXCEPT ![w] = Append(@, out[w])]
    /\ out' = [out EXCEPT ![w] = StateMsg(heap[room[w]], now)]
    /\ pc' = [pc EXCEPT ![w] = "send_state"]
    /\ UNCHANGED <<now, rooms, heap, room, room_id, client_name, pending,
                   dead, alive, close_code, cmds, reads, delivered, msg>>

\* mutant: the dead leave room.clients and stay in room.client_ids
PruneClientsOnly(r, ds) == [r EXCEPT !.clients = @ \ ds]

\* for ws in dead: room.clients.discard(ws); room.client_ids.pop(ws, None)
Prune(r, ds) ==
    [r EXCEPT !.clients = @ \ ds,
              !.client_ids = [x \in DOMAIN @ \ ds |-> @[x]]]

\* mutant: the connections of every room of the registry
TargetsOfEveryRoom(r, exclude) ==
    UNION {heap[i].clients : i \in DOMAIN heap} \ {exclude}

\* mutant: nobody is excluded
TargetsAll(r, exclude) == r.clients

\* list(room.clients) without the excluded connection
Targets(r, exclude) == r.clients \ {exclude}

\* the state snapshot is sent; broadcast(join event, exclude=ws) starts and,
\* with nobody else in the room, ends
SendState(w) ==
    /\ pc[w] = "send_state"
    /\ Deliverable(w)
    /\ outbox' = [outbox EXCEPT ![w] = Append(@, out[w])]
    /\ LET r  == heap[room[w]]
           ts == Targets(r, w)
       IN  IF ts = {}
           THEN /\ pc' = [pc EXCEPT ![w] = "active"]
                /\ out' = [out EXCEPT ![w] = None]
                /\ UNCHANGED pending
           ELSE /\ pc' = [pc EXCEPT ![w] = "broadcast"]
                /\ out' = [out EXCEPT ![w] =
                              JoinEvent(ClientIdOf(w), client_name[w], now, r.host_id)]
                /\ pending' = [pending EXCEPT ![w] = ts]
    /\ UNCHANGED <<now, rooms, heap, room, room_id, client_name, dead, alive,
                   close_code, cmds, reads, delivered, msg>>

\* one send of broadcast's loop; after the last one the dead are pruned (dead
\* and delivered stay as the record of the pass)
BroadcastSend(w, t) ==
    /\ pc[w] = "broadcast"
    /\ t \in pending[w]
    /\ LET ok   == Deliverable(t)
           ds   == IF ok THEN dead[w] ELSE dead[w] \cup {t}
           rest == pending[w] \ {t}
       IN  /\ outbox' = IF ok THEN [outbox EXCEPT ![t] = Append(@, out[w])]
                              ELSE outbox
           /\ pending' = [pending EXCEPT ![w] = rest]
           /\ delivered' = [delivered EXCEPT ![w] = IF ok THEN @ \cup {t} ELSE @]
           /\ dead' = [dead EXCEPT ![w] = ds]
           /\ IF rest = {}
              THEN /\ heap' = [heap EXCEPT ![room[w]] = Prune(@, ds)]
                   /\ out' = [out EXCEPT ![w] = None]
                   /\ pc' = [pc EXCEPT ![w] = "active"]
              ELSE UNCHANGED <<heap, out, pc>>
    /\ UNCHANGED <<now, rooms, room, room_id, client_name, alive, close_code,
                   cmds, reads, msg>>

\* main loop, ping: the pong is built
RecvPing(w, m) ==
    /\ pc[w] = "active"
    /\ alive[w]
    /\ cmds < MaxCmds
    /\ m.type = "ping"
    /\ cmds' = cmds + 1
    /\ out' = [out EXCEPT ![w] = PongMsg(Get(m.t, None), now)]
    /\ pc' = [pc EXCEPT ![w] = "send_pong"]
    /\ msg' = [msg EXCEPT ![w] = m]
    /\ UNCHANGED <<now, rooms, heap, room, room_id, client_name, pending,
                   dead, alive, close_code, outbox, reads, delivered>>

SendPong(w) ==
    /\ pc[w] = "send_pong"
    /\ Deliverable(w)
    /\ outbox' = [outbox EXCEPT ![w] = Append(@, out[w])]
    /\ out' = [out EXCEPT ![w] = None]
    /\ pc' = [pc EXCEPT ![w] = "active"]
    /\ UNCHANGED <<now, rooms, heap, room, room_id, client_name, pending,
                   dead, alive, close_code, cmds, reads, delivered, msg>>

\* mutant: every member of the room may control it
is_member(r, cid) == \E x \in DOMAIN r.client_ids : r.client_ids[x] = cid

\* is_host = (room.host_id == client_id)
is_host(r, cid) == r.host_id = cid

\* mutant: the new media starts playing
SetMediaStartsPlaying(r, media_id) ==
    [r EXCEPT !.media_id = media_id, !.is_playing = TRUE, !.position = 0]

\* mutant: the handler stops after the resets, before media_id is written
SetMediaResetOnly(r, media_id) == [r EXCEPT !.is_playing = FALSE, !.position = 0]

\* mutant: the media is only set while the room has none, as at the join
SetMediaIfNone(r, media_id) ==
    IF r.media_id = <<>>
    THEN [r EXCEPT !.media_id = media_id, !.is_playing = FALSE, !.position = 0]
    ELSE r

\* room.media_id = media_id; room.is_playing = False; room.position = 0.0
SetMedia(r, media_id) ==
    [r EXCEPT !.media_id = media_id, !.is_playing = FALSE, !.position = 0]

\* main loop, set_media: not the host, continue; the host, the room is updated
RecvSetMedia(w, m) ==
    /\ pc[w] = "active"
    /\ alive[w]
    /\ cmds < MaxCmds
    /\ m.type = "set_media"
    /\ cmds' = cmds + 1
    /\ heap' = IF is_host(heap[room[w]], ClientIdOf(w))
               THEN [heap EXCEPT ![room[w]] =
                        SetMedia(@, Strip(Get(m.media_id, <<>>)))]
               ELSE heap
    /\ msg' = [msg EXCEPT ![w] = m]
    /\ UNCHANGED <<now, rooms, pc, room, room_id, client_name, out, pending,
                   dead, alive, close_code, outbox, reads, delivered>>

\* main loop, any other type: no branch matches, the loop goes on
RecvOther(w, m) ==
    /\ pc[w] = "active"
    /\ alive[w]
    /\ cmds < MaxCmds
    /\ m.type \notin {"ping", "set_media"}
    /\ cmds' = cmds + 1
    /\ msg' = [msg EXCEPT ![w] = m]
    /\ UNCHANGED <<now, rooms, heap, pc, room, room_id, client_name, out,
                   pending, dead, alive, close_code, outbox, reads, delivered>>

\* ---------------------------------------------------------- specifications
Init ==
    /\ now = 0
    /\ rooms = EmptyDict
    /\ heap = <<>>
    /\ pc = [w \in Conns |-> "connecting"]
    /\ room = [w \in Conns |-> 0]
    /\ room_id = [w \in Conns |-> None]
    /\ client_name = [w \in Conns |-> <<"g", "u", "e", "s", "t">>]
    /\ out = [w \in Conns |-> None]
    /\ pending = [w \in Conns |-> {}]
    /\ dead = [w \in Conns |-> {}]
    /\ delivered = [w \in Conns |-> {}]
    /\ msg = [w \in Conns |-> NoMsg]
    /\ alive = [w \in Conns |-> TRUE]
    /\ close_code = [w \in Conns |-> 0]
    /\ outbox = [w \in Conns |-> <<>>]
    /\ cmds = 0
    /\ reads = <<>>

FirstMsgs(w) ==
    JoinMsgs(w) \cup SetMediaMsgs \cup PingMsgs \cup [type : {NoType}]

Sessions == 1..NumConns

Next ==
    \/ Tick
    \/ \E rid \in RoomIds : create_room(rid)
    \/ \E w \in Sessions : Disconnect(w)
    \/ \E w \in Sessions : Accept(w)
    \/ \E w \in Sessions : \E m \in FirstMsgs(w) : RecvNotJoin(w, m)
    \/ \E w \in Sessions : \E m \in JoinMsgs(w) : RecvJoinNoRoom(w, m)
    \/ \E w \in Sessions : \E m \in JoinMsgs(w) : RecvJoin(w, m)
    \/ \E w \in Sessions : RecvFails(w)
    \/ \E w \in Sessions : SendFails(w)
    \/ \E w \in Sessions : SendWelcome(w)
    \/ \E w \in Sessions : SendState(w)
    \/ \E w \in Sessions : \E t \in Sessions : BroadcastSend(w, t)
    \/ \E w \in Sessions : \E m \in PingMsgs : RecvPing(w, m)
    \/ \E w \in Sessions : SendPong(w)
    \/ \E w \in Sessions : \E m \in SetMediaMsgs : RecvSetMedia(w, m)
    \/ \E w \in Sessions : \E m \in OtherMsgs : RecvOther(w, m)

Spec == Init /\ [][Next]_vars

\* Three sessions that join and leave, and send nothing after their join
FanoutSessions == 1..FanoutConns

NextFanout ==
    \/ \E w \in FanoutSessions : Disconnect(w)
    \/ \E w \in FanoutSessions : Accept(w)
    \/ \E w \in FanoutSessions : \E m \in JoinMsgs(w) : RecvJoin(w, m)
    \/ \E w \in FanoutSessions : RecvFails(w)
    \/ \E w \in FanoutSessions : SendFails(w)
    \/ \E w \in FanoutSessions : SendWelcome(w)
    \/ \E w \in FanoutSessions : SendState(w)
    \/ \E w \in FanoutSessions : \E t \in FanoutSessions : BroadcastSend(w, t)

SpecFanout == Init /\ [][NextFanout]_vars

\* effective_position as a function: one room in any playback state, read as
\* the clock advances
InitEP ==
    /\ now \in 0..MaxClockEP
    /\ rooms = DictSet(EmptyDict, RoomIdSeq[1], 1)
    /\ \E p \in BOOLEAN, x \in 0..MaxPos, u \in 0..now :
          heap = <<[NewRoomState(u) EXCEPT !.is_playing = p, !.position = x]>>
    /\ pc = [w \in Conns |-> "connecting"]
    /\ room = [w \in Conns |-> 0]
    /\ room_id = [w \in Conns |-> None]
    /\ client_name = [w \in Conns |-> <<"g", "u", "e", "s", "t">>]
    /\ out = [w \in Conns |-> None]
    /\ pending = [w \in Conns |-> {}]
    /\ dead = [w \in Conns |-> {}]
    /\ delivered = [w \in Conns |-> {}]
    /\ msg = [w \in Conns |-> NoMsg]
    /\ alive = [w \in Conns |-> TRUE]
    /\ close_code = [w \in Conns |-> 0]
    /\ outbox = [w \in Conns |-> <<>>]
    /\ cmds = 0
    /\ reads = <<>>

NextEP ==
    \/ Advance(MaxClockEP)
    \/ \E i \in DOMAIN heap : ReadPosition(i)

SpecEP == InitEP /\ [][NextEP]_vars

\* ------------------------------------------------------------------ claims
\* w's main loop has just handled a set_media and is back at its receive
HandledSetMedia(w) == pc[w] = "active" /\ msg[w].type = "set_media"

\* w's handler leaves its first receive with a valid join in this step
Joins(w) == pc[w] = "awaiting_join" /\ pc'[w] = "send_welcome"

\* C1: the first client whose join is processed while a room's host_id is unset
\* becomes its host, and no step (join, command, broadcast, disconnect) changes
\* a host_id that is set.
C1_HostStable ==
    [][/\ \A i \in DOMAIN heap :
            heap[i].host_id # None => heap'[i].host_id = heap[i].host_id
       /\ \A w \in Conns :
            Joins(w) =>
              LET i == room'[w]
              IN  (i \notin DOMAIN heap \/ heap[i].host_id = None)
                      => heap'[i].host_id = ClientIdOf(w)
       /\ \A i \in DOMAIN heap :
            (heap[i].host_id = None /\ heap'[i].host_id # None)
                => \E w \in Conns : Joins(w) /\ room'[w] = i]_vars

\* C1 witness: the host has gone and is closed, a later joiner is active in the
\* room and has had a command handled, and the host is still the first joiner.
C1_Witness ==
    \E i \in DOMAIN heap :
        /\ heap[i].host_id = ClientIdOf(1)
        /\ ~alive[1] /\ pc[1] = "closed"
        /\ 2 \in heap[i].clients /\ HandledSetMedia(2)

\* C2: a set_media handled for a session that is not the room's host changes
\* no room, sends nothing to anybody and leaves the session in its main loop
\* with its connection open.
C2_NonHostDropped ==
    [][\A w \in Conns : \A m \in SetMediaMsgs :
          (RecvSetMedia(w, m) /\ heap[room[w]].host_id # ClientIdOf(w))
              => /\ UNCHANGED <<heap, rooms, outbox, out, close_code, alive>>
                 /\ pc'[w] = "active" /\ pc' = pc]_vars

\* C2 witness: a guest's set_media naming another media than the room's has
\* been handled.
C2_Witness ==
    \E w \in Conns :
        /\ HandledSetMedia(w)
        /\ heap[room[w]].host_id # ClientIdOf(w)
        /\ Strip(Get(msg[w].media_id, <<>>)) # heap[room[w]].media_id
        /\ Deliverable(w)

\* C3 (as amended): the host's set_media sets media_id to the supplied
\* identifier stripped of surrounding whitespace (empty when it is missing),
\* is_playing to false and position to 0.
C3_HostSetMedia ==
    [][\A w \in Conns : \A m \in SetMediaMsgs :
          (RecvSetMedia(w, m) /\ heap[room[w]].host_id = ClientIdOf(w))
              => /\ heap'[room[w]].media_id = Strip(Get(m.media_id, <<>>))
                 /\ heap'[room[w]].is_playing = FALSE
                 /\ heap'[room[w]].position = 0]_vars

\* C3 witness: the host replaced a media the room already had.
C3_Witness ==
    \E w \in Conns :
        /\ HandledSetMedia(w)
        /\ heap[room[w]].host_id = ClientIdOf(w)
        /\ heap[room[w]].media_id = <<"n">>
        /\ \E k \in DOMAIN outbox[w] :
              outbox[w][k].type = "state" /\ outbox[w][k].media_id = <<"m">>

\* C3 as stated: media_id becomes the identifier exactly as supplied.
C3_SuppliedVerbatim ==
    [][\A w \in Conns : \A m \in SetMediaMsgs :
          (RecvSetMedia(w, m) /\ heap[room[w]].host_id = ClientIdOf(w))
              => /\ heap'[room[w]].media_id = Get(m.media_id, <<>>)
                 /\ heap'[room[w]].is_playing = FALSE
                 /\ heap'[room[w]].position = 0]_vars

\* t's outbox holds a set_media event
GotSetMediaEvent(t) ==
    \E k \in DOMAIN outbox[t] :
        /\ outbox[t][k].type = "event"
        /\ outbox[t][k].kind = "set_media"

\* C4: once the host's set_media has been handled, every connection of the
\* room that can be sent to, the host's included, has received a set_media
\* event.
C4_SetMediaBroadcast ==
    \A w \in Conns :
        (HandledSetMedia(w) /\ heap[room[w]].host_id = ClientIdOf(w))
            => \A t \in heap[room[w]].clients : Deliverable(t) => GotSetMediaEvent(t)

\* w's handler leaves its first receive in this step
Leaves(w) == pc[w] = "awaiting_join" /\ pc'[w] # "awaiting_join"

\* a room field that is missing, empty or only whitespace
Blank(v) == v = Missing \/ \A k \in DOMAIN v : v[k] = SP

\* w's broadcast makes one send in this step
Sends(w) == pc[w] = "broadcast" /\ pending'[w] # pending[w]

\* C5 (as amended): broadcast tries every connection of the room but the
\* excluded one, one send per step; a failed send neither stops the pass nor
\* reaches the caller; a send that can be delivered is delivered whatever
\* failed before; the final step removes from clients and client_ids exactly
\* the connections whose send failed in this pass, none whose send succeeded.
C5_Broadcast ==
    [][\A w \in Conns :
          /\ (pc[w] = "send_state" /\ pc'[w] \in {"broadcast", "active"})
                => /\ pending'[w] = heap[room[w]].clients \ {w}
                   /\ (pc'[w] = "active") <=> (pending'[w] = {})
          /\ Sends(w) =>
               LET tried  == pending[w] \ pending'[w]
                   failed == dead[w] \cup {t \in tried : ~Deliverable(t)}
                   r      == room[w]
               IN  /\ Cardinality(tried) = 1
                   /\ pending'[w] \subseteq pending[w]
                   /\ pc'[w] \in {"broadcast", "active"}
                   /\ close_code' = close_code
                   /\ \A t \in tried :
                        Deliverable(t) => outbox'[t] = Append(outbox[t], out[w])
                   /\ \A t \in Conns \ {x \in tried : Deliverable(x)} :
                        outbox'[t] = outbox[t]
                   /\ dead'[w] = failed
                   /\ delivered'[w] \cap failed = {}
                   /\ (pc'[w] = "active") <=> (pending'[w] = {})
                   /\ IF pending'[w] = {}
                      THEN /\ heap'[r].clients = heap[r].clients \ failed
                           /\ DOMAIN heap'[r].client_ids =
                                  DOMAIN heap[r].client_ids \ failed
                      ELSE heap' = heap]_vars

\* C5 witness: a finished pass reached one connection and pruned another.
C5_Witness ==
    \E w \in Conns : \E t \in Conns : \E d \in Conns :
        /\ pc[w] = "active"
        /\ delivered[w] = {t} /\ dead[w] = {d}
        /\ t \in heap[room[w]].clients
        /\ d \notin heap[room[w]].clients
        /\ d \notin DOMAIN heap[room[w]].client_ids
        /\ \E k \in DOMAIN outbox[t] :
              /\ outbox[t][k].type = "event"
              /\ outbox[t][k].payload.client_id = ClientIdOf(w)

\* C5 as stated: when the pass ends, every connection whose send failed is out
\* of clients and every connection whose send succeeded is still a member.
C5_SucceededStillMember ==
    [][\A w \in Conns :
          (pc[w] = "broadcast" /\ pc'[w] = "active")
              => /\ \A t \in dead'[w] : t \notin heap'[room[w]].clients
                 /\ \A t \in delivered'[w] : t \in heap'[room[w]].clients]_vars

\* C6: a join whose room is missing, empty or whitespace is answered by
\* close(1008); no room is created, no connection registered, no host set.
C6_BlankRoomRejected ==
    [][\A w \in Conns : Leaves(w) => \A m \in JoinMsgs(w) :
          (RecvFirst(w, m) /\ Blank(m.room))
              => /\ close_code'[w] = 1008
                 /\ pc'[w] = "closed"
                 /\ UNCHANGED <<rooms, heap, room, outbox>>]_vars

\* C6 witness: a connection closed with 1008 while a room exists.
C6_Witness ==
    \E w \in Conns :
        /\ close_code[w] = 1008 /\ pc[w] = "closed" /\ room[w] = 0
        /\ \E i \in DOMAIN heap : heap[i].clients # {} /\ w \notin heap[i].clients

\* C7: a first message that is not a join is answered by close(1002), which
\* is not the empty room's 1008, and changes no room; and every member of a
\* room got there by a valid join.
C7_NotJoinRejected ==
    /\ [][\A w \in Conns : Leaves(w) => \A m \in FirstMsgs(w) :
            (RecvFirst(w, m) /\ m.type # "join")
                => /\ close_code'[w] = 1002
                   /\ close_code'[w] # 1008
                   /\ pc'[w] = "closed"
                   /\ UNCHANGED <<rooms, heap, room, outbox>>]_vars
    /\ [](\A i \in DOMAIN heap : \A w \in heap[i].clients :
            /\ room[w] = i
            /\ pc[w] \notin {"connecting", "awaiting_join"}
            /\ close_code[w] \notin {1002, 1008})

\* C7 witness: a connection closed with 1002 while another is a member.
C7_Witness ==
    \E w \in Conns :
        /\ close_code[w] = 1002 /\ pc[w] = "closed" /\ room[w] = 0
        /\ \E i \in DOMAIN heap : heap[i].clients # {}

\* the join event of w at place k of t's outbox
IsJoinEventOf(w, t, k) ==
    /\ outbox[t][k].type = "event"
    /\ outbox[t][k].kind = "join"
    /\ outbox[t][k].payload.client_id = ClientIdOf(w)

\* the places of w's outbox that hold a message of type ty
Places(w, ty) == {k \in DOMAIN outbox[w] : outbox[w][k].type = ty}

\* w has been sent its welcome and, after it, its state snapshot
Greeted(w) ==
    \E i \in Places(w, "welcome") : \E j \in Places(w, "state") : i < j

\* C8: a joiner is sent one welcome (its client_id, the room id, the room's
\* host_id) and after it one state snapshot; its join event reaches another
\* connection only after both, and never the joiner itself.
C8_JoinOrder ==
    \A w \in Conns :
        /\ Cardinality(Places(w, "welcome")) <= 1
        /\ Cardinality(Places(w, "state")) <= 1
        /\ \A i \in Places(w, "welcome") :
              outbox[w][i] = WelcomeMsg(ClientIdOf(w), room_id[w],
                                        heap[room[w]].host_id)
        /\ \A j \in Places(w, "state") : \E i \in Places(w, "welcome") : i < j
        /\ \A t \in Conns : \A k \in DOMAIN outbox[t] :
              IsJoinEventOf(w, t, k) => (t # w /\ Greeted(w))
        /\ pc[w] \in {"broadcast", "active"} => Greeted(w)

\* C8 witness: another connection holds w's join event.
C8_Witness ==
    \E w \in Conns : \E t \in Conns : \E k \in DOMAIN outbox[t] :
        IsJoinEventOf(w, t, k) /\ Greeted(w) /\ Greeted(t)

\* C9: a join changes the room's media_id only if the room had none, the
\* joiner supplied one and the joiner is the host; and, while no command has
\* been handled, a guest's snapshot shows is_playing false, position 0, the
\* room's media and the room's host, who is not the guest.
C9_MediaAdoption ==
    /\ [][\A w \in Conns : Leaves(w) => \A m \in JoinMsgs(w) :
            RecvFirst(w, m) =>
              LET rid == Strip(Get(m.room, <<>>))
                  old == IF rid \in DOMAIN rooms
                         THEN heap[rooms[rid]].media_id ELSE <<>>
              IN  /\ \A i \in DOMAIN heap :
                        i # room'[w] => heap'[i].media_id = heap[i].media_id
                  /\ (room'[w] # 0 /\ heap'[room'[w]].media_id # old)
                        => /\ old = <<>>
                           /\ ~Blank(Get(m.media_id, <<>>))
                           /\ heap'[room'[w]].media_id = Strip(m.media_id)
                           /\ heap'[room'[w]].host_id = ClientIdOf(w)]_vars
    /\ [](\A w \in Conns : \A k \in Places(w, "state") :
            (cmds = 0 /\ heap[room[w]].host_id # ClientIdOf(w))
                => /\ outbox[w][k].is_playing = FALSE
                   /\ outbox[w][k].position = 0
                   /\ outbox[w][k].media_id = heap[room[w]].media_id
                   /\ outbox[w][k].host_id = heap[room[w]].host_id
                   /\ outbox[w][k].host_id # None)

\* C9 witness: a guest of a room whose host chose media m holds its snapshot.
C9_Witness ==
    \E w \in Conns : \E k \in Places(w, "state") :
        /\ cmds = 0
        /\ heap[room[w]].host_id = ClientIdOf(1) /\ w # 1
        /\ outbox[w][k].media_id = <<"m">>

\* C10: a read of effective_position is the committed position while paused
\* and position + (now - updated_at) while playing; while playing it is
\* never below the committed position, and two reads d clock units apart
\* differ by exactly d.
C10_EffectivePosition ==
    \A i \in DOMAIN reads :
        LET r == heap[1]
        IN  /\ ~r.is_playing => reads[i].value = r.position
            /\ r.is_playing =>
                  /\ reads[i].value = r.position + (reads[i].at - r.updated_at)
                  /\ reads[i].value >= r.position
                  /\ \A j \in DOMAIN reads :
                        i < j =>
                          /\ reads[j].value >= reads[i].value
                          /\ reads[j].value - reads[i].value =
                                reads[j].at - reads[i].at

\* C10 witness: two reads of a playing room at different times.
C10_Witness ==
    /\ heap[1].is_playing
    /\ Len(reads) = 2
    /\ reads[2].at > reads[1].at
    /\ reads[1].at > heap[1].updated_at

\* C11: a room id names one RoomState for ever: the registry never rebinds an
\* id, no RoomState exists outside it, every session that joined an id is
\* registered in the registry's RoomState of that id and its join removed no
\* other registration, and a room that sessions joined has one host, who is
\* one of them.
C11_OneRoomPerId ==
    /\ [][/\ \A rid \in DOMAIN rooms :
                rid \in DOMAIN rooms' /\ rooms'[rid] = rooms[rid]
           /\ Len(heap') >= Len(heap)
           /\ \A w \in Conns :
                Joins(w) =>
                  LET i == room'[w]
                  IN  /\ i = rooms'[room_id'[w]]
                      /\ w \in heap'[i].clients
                      /\ w \in DOMAIN heap'[i].client_ids
                      /\ (i \in DOMAIN heap) =>
                            /\ heap[i].clients \subseteq heap'[i].clients
                            /\ (heap[i].host_id # None) =>
                                  (heap'[i].host_id = heap[i].host_id)
                      /\ heap'[i].host_id # None]_vars
    /\ [](/\ \A r1 \in DOMAIN rooms : \A r2 \in DOMAIN rooms :
                rooms[r1] = rooms[r2] => r1 = r2
           /\ {rooms[rid] : rid \in DOMAIN rooms} = DOMAIN heap
           /\ \A w \in Conns : room[w] # 0 => room[w] = rooms[room_id[w]]
           /\ \A i \in DOMAIN heap :
                LET joined == {v \in Conns : room[v] = i}
                IN  joined # {} =>
                      Cardinality({v \in joined :
                                     heap[i].host_id = ClientIdOf(v)}) = 1)

\* C11 witness: two sessions joined the same new id, the second before the
\* first was sent anything; there is one RoomState, both are registered in it
\* and the first is its host.
C11_Witness ==
    /\ pc[1] = "send_welcome" /\ pc[2] = "send_welcome"
    /\ room_id[1] = room_id[2]
    /\ Len(heap) = 1
    /\ heap[1].clients = {1, 2}
    /\ heap[1].host_id = ClientIdOf(1)

\* C12: once the handler of a session that joined a room is closed, its
\* connection is not a member of the room's clients.
C12_ClosedNotMember ==
    \A w \in Conns :
        (pc[w] = "closed" /\ room[w] # 0) => w \notin heap[room[w]].clients

\* C13: handling a ping changes no room and sends nothing; the send that
\* follows appends one pong with the ping's token to the pinging session's
\* outbox and to no other, and changes no room; and a pong reaches an outbox
\* in no other step.
C13_PingPong ==
    [][\A w \in Conns :
          /\ (pc[w] = "active" /\ pc'[w] = "send_pong")
                => /\ msg'[w].type = "ping"
                   /\ UNCHANGED <<heap, rooms, outbox, close_code>>
          /\ (pc[w] = "send_pong" /\ pc'[w] = "active")
                => /\ outbox'[w] =
                          Append(outbox[w], [type |-> "pong", t |-> msg[w].t])
                   /\ \A t \in Conns \ {w} : outbox'[t] = outbox[t]
                   /\ UNCHANGED <<heap, rooms, close_code>>
          /\ (Places(w, "pong")' # Places(w, "pong"))
                => /\ pc[w] = "send_pong" /\ pc'[w] = "active"
                   /\ Len(outbox'[w]) = Len(outbox[w]) + 1]_vars

\* C13 witness: a guest holds the pong of its ping; the host, live in the same
\* room, holds none.
C13_Witness ==
    \E w \in Conns : \E h \in Conns :
        /\ pc[w] = "active" /\ msg[w] = [type |-> "ping", t |-> <<"2">>]
        /\ \E k \in Places(w, "pong") : outbox[w][k].t = <<"2">>
        /\ h # w /\ room[h] = room[w] /\ pc[h] = "active" /\ Deliverable(h)
        /\ heap[room[w]].host_id = ClientIdOf(h)
        /\ heap[room[w]].clients = {w, h}
        /\ Places(h, "pong") = {}

\* C14: the step in which a handler ends (protocol violation, failed receive,
\* failed send) closes no other connection, moves no other handler, sends
\* nothing and changes no room; a connection is only ever closed by its own
\* handler's last step; and a connection that leaves a room's clients can no
\* longer be sent to.
C14_FailureLocal ==
    [][\A w \in Conns :
          /\ (pc[w] # "closed" /\ pc'[w] = "closed")
                => /\ \A v \in Conns \ {w} :
                        close_code'[v] = close_code[v] /\ pc'[v] = pc[v]
                   /\ UNCHANGED <<heap, rooms, outbox, alive>>
          /\ (close_code'[w] # close_code[w])
                => (pc[w] # "closed" /\ pc'[w] = "closed")
          /\ \A i \in DOMAIN heap :
                (w \in heap[i].clients /\ w \notin heap'[i].clients)
                    => ~Deliverable(w)]_vars

\* C14 witness: a member's handler ended on a failure while another member of
\* the same room, still live, stays in the room with its handler running.
C14_Witness ==
    \E w \in Conns : \E v \in Conns :
        /\ pc[w] = "closed" /\ room[w] # 0 /\ ~alive[w]
        /\ v # w /\ room[v] = room[w]
        /\ pc[v] = "active" /\ Deliverable(v)
        /\ v \in heap[room[v]].clients

\* C15: a play, pause or seek handled for the host sets the room's position
\* and is_playing to the supplied values and updated_at to the time of the
\* command.
C15_PlaybackCommands ==
    [][\A w \in Conns : \A m \in OtherMsgs :
          (RecvOther(w, m) /\ heap[room[w]].host_id = ClientIdOf(w))
              => LET r == heap'[room[w]]
                 IN  /\ r.updated_at = now
                     /\ CASE m.type = "play" ->
                               r.is_playing = TRUE /\ r.position = m.at
                          [] m.type = "pause" ->
                               r.is_playing = FALSE /\ r.position = m.at
                          [] OTHER ->
                               r.is_playing = m.playing /\ r.position = m.to]_vars

\* C16: a set_media handled for the host sets the room's updated_at to the
\* time of the command.
C16_SetMediaStamps ==
    [][\A w \in Conns : \A m \in SetMediaMsgs :
          (RecvSetMedia(w, m) /\ heap[room[w]].host_id = ClientIdOf(w))
              => heap'[room[w]].updated_at = now]_vars

\* the fields of a RoomState that a state snapshot shows
Shown(r) == <<r.media_id, r.is_playing, r.position>>

\* C17: the host's set_media writes media_id, is_playing and position in the
\* one step in which it is handled; these fields of a room change in no other
\* step but a join that adopts the joiner's media; the step in which a
\* handler ends changes no room; and a snapshot shows the fields of one state
\* of the room, the one in which it is built.
C17_MutationAtomic ==
    [][/\ \A w \in Conns : \A m \in SetMediaMsgs :
            (RecvSetMedia(w, m) /\ heap[room[w]].host_id = ClientIdOf(w))
                => Shown(heap'[room[w]]) =
                      <<Strip(Get(m.media_id, <<>>)), FALSE, 0>>
       /\ \A i \in DOMAIN heap :
            Shown(heap'[i]) # Shown(heap[i])
                => \E w \in Conns :
                      \/ /\ pc[w] = "active" /\ pc'[w] = "active"
                         /\ room[w] = i /\ heap[i].host_id = ClientIdOf(w)
                         /\ msg'[w].type = "set_media"
                         /\ heap'[i].is_playing = FALSE
                         /\ heap'[i].position = 0
                      \/ /\ Joins(w) /\ room'[w] = i
                         /\ heap'[i].is_playing = heap[i].is_playing
                         /\ heap'[i].position = heap[i].position
       /\ \A w \in Conns :
            (pc[w] # "closed" /\ pc'[w] = "closed") => heap' = heap
       /\ \A w \in Conns :
            (pc[w] = "send_welcome" /\ pc'[w] = "send_state")
                => <<out'[w].media_id, out'[w].is_playing, out'[w].position>>
                      = Shown(heap[room[w]])]_vars

\* C17 witness: a guest's snapshot, not yet sent, shows the media the host
\* has set by a command in place of the one it adopted at its join, paused at
\* position 0.
C17_Witness ==
    \E w \in Conns : \E h \in Conns :
        /\ pc[w] = "send_state" /\ room[w] = room[h] /\ w # h
        /\ HandledSetMedia(h) /\ heap[room[h]].host_id = ClientIdOf(h)
        /\ \E k \in Places(h, "state") : outbox[h][k].media_id = <<"m">>
        /\ out[w].media_id = <<"n">>
        /\ out[w].is_playing = FALSE /\ out[w].position = 0

\* w's handler takes this step
Acts(w) == <<pc[w], msg[w], pending[w]>>' # <<pc[w], msg[w], pending[w]>>

\* C18: a step of a session's handler changes no RoomState but the one the
\* session joined, and delivers a message to nobody but the session itself
\* and the members of that room; and a connection is a member of no room but
\* the one it joined.
C18_RoomsIndependent ==
    /\ [][\A w \in Conns :
            Acts(w) =>
              LET r == room'[w]
              IN  /\ \A i \in DOMAIN heap : i # r => heap'[i] = heap[i]
                  /\ \A t \in Conns :
                        outbox'[t] # outbox[t]
                            => /\ r # 0
                               /\ t = w \/ t \in heap[r].clients]_vars
    /\ [](\A i \in DOMAIN heap : \A t \in heap[i].clients : room[t] = i)

\* C18 witness: two rooms with one member each; the host of the first has
\* set its media by a command, the second room keeps its own and its member
\* holds nothing but its welcome and its snapshot.
C18_Witness ==
    /\ Len(heap) = 2
    /\ heap[1].clients = {1} /\ heap[2].clients = {2}
    /\ HandledSetMedia(1) /\ heap[1].host_id = ClientIdOf(1)
    /\ heap[1].media_id = <<"n">> /\ heap[2].media_id = <<"m">>
    /\ pc[2] = "active" /\ Len(outbox[2]) = 2

\* C19: whenever the handlers are at their awaits, the keys of every room's
\* client_ids are its clients, each with its own connection's client id.
C19_ClientIdsMatch ==
    \A i \in DOMAIN heap :
        /\ DOMAIN heap[i].client_ids = heap[i].clients
        /\ \A t \in heap[i].clients : heap[i].client_ids[t] = ClientIdOf(t)

\* C19 witness: two passes over the same room have ended, each having failed
\* on the same connection; the second found it already removed, and the
\* connections that remain are registered.
C19_Witness ==
    \E w \in Conns : \E v \in Conns : \E d \in Conns :
        /\ w # v /\ room[w] = room[v] /\ room[w] # 0
        /\ pc[w] = "active" /\ pc[v] = "active"
        /\ dead[w] = {d} /\ dead[v] = {d}
        /\ heap[room[w]].clients = {w, v}
        /\ DOMAIN heap[room[w]].client_ids = {w, v}

====
